---- MODULE Spec2Model ----
(***************************************************************************)
(* A model of the high score server of srv.go: token issuance (getToken),  *)
(* score submission (addScore), administrative reset (resetScore) and the  *)
(* per-subscriber publishing loop (stream) with its fused sort-and-truncate *)
(* read of the score store (truncateAndGetScores).                         *)
(*                                                                         *)
(* Elapsed times are float64 seconds in the program; here they are counted *)
(* in half seconds, so that a fractional elapsed time can be compared with *)
(* the whole-second wall clock difference.                                 *)
(***************************************************************************)
EXTENDS Integers, Sequences, FiniteSets, TLC

VARIABLES
    scores,     \* s.scores: the stored sequence of Score
    hmacKey,    \* s.hmacKey: the key drawn at startup
    mutex,      \* s.mutex: "free" or the task that holds it
    now,        \* time.Now().Unix()
    issued,     \* history: the tokens getToken has answered with
    areq,       \* addScore handler: the request body being served
    apc,        \* addScore handler: "idle", "lock", "cs", "done"
    newScore,   \* addScore handler: the decoded score once it passed validation
    astatus,    \* addScore handler: the status written (0 = none yet)
    awhy,       \* addScore handler: the branch on which it returned
    at,         \* addScore handler: the clock when it validated the request (t of
                \* line 105, when it got that far)
    rpc,        \* resetScore handler: "idle", "lock", "cs", "done"
    rstatus,    \* resetScore handler: the status written (0 = none yet)
    cleared,    \* history: how many scores the last reset discarded, -1 once a
                \* score is appended (and before the first reset)
    spc,        \* stream, per subscriber: "new", "select", "lock", "cs", "write",
                \* "send", "done"
    ret,        \* stream, per subscriber: the value truncateAndGetScores returned
    fresh,      \* history: the subscribers holding a returned value with no append
                \* and no reset since their call
    rk,         \* history: the call of truncateAndGetScores just made (n, the store
                \* before, the value returned, whether the step before was a call
                \* too), NoCall once the store is appended to or reset
    capacity,   \* cap(s.scores): the length of the array s.scores is a slice of
    alias,      \* stream: the subscribers whose slice (the local scores of line
                \* 192) is a slice of the array s.scores is a slice of
    view,       \* stream, per subscriber: the elements its slice shows now
    data,       \* stream, per subscriber: the frame json.Marshal made of its slice
    cancelled,  \* stream: the subscribers whose connection context is done
    ticker,     \* stream, per subscriber: "none", "running", "stopped"
    rreq        \* resetScore handler: the request being served

vars == <<scores, hmacKey, mutex, now, issued, areq, apc, newScore, astatus, awhy, at,
          rpc, rstatus, cleared, spc, ret, fresh, rk,
          capacity, alias, view, data, cancelled, ticker, rreq>>

----------------------------------------------------------------------------
(* Program constants *)

NUM_SCORES == 20

MaxNameLen == 3

adminPassword == "changeme"

(* Bounds of the model *)

MaxTime == 2        \* the clock runs over 1..MaxTime
MaxStore == 2       \* Spec: no request is taken once the store holds this many
MaxSubmitStore == 1 \* SpecSubmit: no request is taken once the store holds this many
MaxStreamStore == 4 \* SpecStream: no request is taken once the store holds this many
MaxLoopStore == 1   \* SpecLoop: no request is taken once the store holds this many
MaxLiveStore == 2   \* SpecLive: no request is taken once the store holds this many
MaxAdmitStore == 1  \* SpecAdmit: no request is taken once the store holds this many
MaxRankStore == 3   \* SpecRank: no score is appended once the store holds this many
MaxN == 2           \* SpecRank: truncateAndGetScores is called with n in 0..MaxN
MaxRankHealth == 1  \* SpecRank: remaining_health of the scores appended
MaxRankElapsed == 1 \* SpecRank: elapsed (half seconds) of the scores appended

----------------------------------------------------------------------------
(* Strings.  A Go string is a byte sequence; a name is modelled as the     *)
(* sequence of its characters, each with the length of its UTF-8 encoding. *)

Chars == {"A", "U00E9"}

Utf8Len(c) == IF c = "A" THEN 1 ELSE 2

RECURSIVE len(_)
len(str) == IF str = <<>> THEN 0 ELSE Utf8Len(Head(str)) + len(Tail(str))

RuneCount(str) == Len(str)

----------------------------------------------------------------------------
(* Token and Score *)

EmptyString == [raw |-> <<>>, form |-> "std"]

ZeroToken == [Start |-> 0, Hmac |-> EmptyString]

MkScore(name, elapsed, health, token) ==
    [PlayerName |-> name, Elapsed |-> elapsed, RemainingHealth |-> health, Token |-> token]

----------------------------------------------------------------------------
(* scoreCmp and truncateAndGetScores *)

cmpCompare(x, y) == IF x < y THEN -1 ELSE IF x > y THEN 1 ELSE 0

cmpOr(a, b) == IF a # 0 THEN a ELSE b

scoreCmp(a, b) ==
    cmpOr(cmpCompare(a.RemainingHealth, b.RemainingHealth),
          -cmpCompare(a.Elapsed, b.Elapsed))

\* faulty variant of InsertStable: x goes before the first element that does
\* not compare less than x
RECURSIVE InsertUnstable(_, _)
InsertUnstable(sorted, x) ==
    IF sorted = <<>> THEN <<x>>
    ELSE IF scoreCmp(x, Head(sorted)) <= 0 THEN <<x>> \o sorted
    ELSE <<Head(sorted)>> \o InsertUnstable(Tail(sorted), x)

\* x goes before the first element that compares greater than x
RECURSIVE InsertStable(_, _)
InsertStable(sorted, x) ==
    IF sorted = <<>> THEN <<x>>
    ELSE IF scoreCmp(x, Head(sorted)) < 0 THEN <<x>> \o sorted
    ELSE <<Head(sorted)>> \o InsertStable(Tail(sorted), x)

RECURSIVE SortStableFunc(_)
SortStableFunc(s) ==
    IF s = <<>> THEN <<>>
    ELSE InsertStable(SortStableFunc(SubSeq(s, 1, Len(s) - 1)), s[Len(s)])

Reverse(s) == [i \in 1..Len(s) |-> s[Len(s) + 1 - i]]

\* faulty variants of truncateAndGetScores
SortedNotTruncated(s, n) == SortStableFunc(s)

SortedReversedTruncated(s, n) ==
    LET sorted == Reverse(SortStableFunc(s))
        t == IF Len(sorted) < n THEN Len(sorted) ELSE n
    IN  SubSeq(sorted, 1, t)

\* the new value of s.scores, which is also the value returned
truncateAndGetScores(s, n) ==
    LET sorted == SortStableFunc(s)
        t == IF Len(sorted) < n THEN Len(sorted) ELSE n
    IN  SubSeq(sorted, 1, t)

NoCall == [n |-> -1, pre |-> <<>>, ret |-> <<>>, again |-> FALSE]

----------------------------------------------------------------------------
(* The token: HMAC-SHA256 over the little-endian start time, in base64.    *)
(* The MAC is an injective function of (key, message).  A base64 string is *)
(* the bytes it stands for and its form: "std" as EncodeToString writes    *)
(* it, "crlf" the same with line breaks inserted (DecodeString skips \r    *)
(* and \n), "bad" anything DecodeString fails on.                          *)

ServerKeys == {"k1"}

ClientKeys == {"k2"}

MacSum(key, start) == <<"mac", key, start>>

EncodeToString(bytes) == [raw |-> bytes, form |-> "std"]

DecodeString(str) ==
    IF str.form = "bad" THEN [err |-> TRUE, bytes |-> <<>>]
    ELSE [err |-> FALSE, bytes |-> str.raw]

WithLineBreaks(str) == [str EXCEPT !.form = "crlf"]

BadBase64 == [raw |-> <<>>, form |-> "bad"]

\* faulty variant of MintToken: the MAC is taken over another message than the start sent
MintTokenOtherMessage(key, t) == [Start |-> t, Hmac |-> EncodeToString(MacSum(key, t + 1))]

\* the Token getToken answers with at clock t
MintToken(key, t) == [Start |-> t, Hmac |-> EncodeToString(MacSum(key, t))]

----------------------------------------------------------------------------
(* Request bodies of /record.  A body either fails to decode or decodes to *)
(* a Score.  A client knows the tokens it was issued, can compute MACs     *)
(* under its own keys, and can send any string.                            *)

ZeroScore == MkScore(<<>>, 0, 0, ZeroToken)

Garbage == [decodes |-> FALSE, body |-> ZeroScore]

NoRequest == [decodes |-> FALSE, body |-> MkScore(<<>>, 0, 0, [Start |-> -1, Hmac |-> BadBase64])]

Body(nm, el, h, tok) == [decodes |-> TRUE, body |-> MkScore(nm, el, h, tok)]

NameInputs == {[i \in 1..k |-> c] : c \in Chars, k \in 0..(MaxNameLen + 1)}

HealthInputs == {-1, 0, 1}

MaxElapsed == 2 * (MaxTime - 1) + 1

ElapsedInputs == 0..MaxElapsed

StartInputs == 0..MaxTime

HmacInputs(start) ==
    {t.Hmac : t \in issued}
        \cup {WithLineBreaks(t.Hmac) : t \in {u \in issued : u.Start = start}}
        \cup {EncodeToString(MacSum(k, start)) : k \in ClientKeys}
        \cup {BadBase64, EmptyString}

TokenInputs == UNION {{[Start |-> st, Hmac |-> hm] : hm \in HmacInputs(st)} : st \in StartInputs}

\* Spec: a valid body under each issued token, and one body for each way of
\* being rejected
SysPayloads ==
    {Garbage, Body(<<"A">>, 0, 0, ZeroToken), Body(<<"A">>, 0, 0, [Start |-> now, Hmac |-> BadBase64])}
        \cup {Body(<<"A">>, 0, h, tok) : h \in {0, 1}, tok \in issued}
        \cup UNION {{Body(<<"A">>, 0, -1, tok), Body(<<>>, 0, 0, tok), Body(<<"A">>, MaxElapsed, 0, tok)} :
                        tok \in {u \in issued : u.Start = now}}

----------------------------------------------------------------------------
(* addScore, up to the point where it takes the lock: the branch on which  *)
(* the handler returns for body p read at clock t, "ok" if it goes on.     *)

\* faulty variant of addScoreCheck: the elapsed time is cut to whole seconds before it
\* is compared
addScoreCheckWholeSeconds(p, key, t) ==
    IF ~p.decodes THEN "decode"
    ELSE IF DecodeString(p.body.Token.Hmac).err THEN "base64"
    ELSE IF DecodeString(p.body.Token.Hmac).bytes # MacSum(key, p.body.Token.Start)
        THEN "signature"
    ELSE IF p.body.RemainingHealth < 0 THEN "health"
    ELSE IF len(p.body.PlayerName) < 1 \/ len(p.body.PlayerName) > MaxNameLen THEN "name"
    ELSE IF t - p.body.Token.Start < p.body.Elapsed \div 2 THEN "elapsed"
    ELSE "ok"

\* faulty variant of addScoreCheck: a token is good in the second it was issued
\* in and expired after
addScoreCheckExpiring(p, key, t) ==
    IF ~p.decodes THEN "decode"
    ELSE IF DecodeString(p.body.Token.Hmac).err THEN "base64"
    ELSE IF DecodeString(p.body.Token.Hmac).bytes # MacSum(key, p.body.Token.Start)
        THEN "signature"
    ELSE IF p.body.RemainingHealth < 0 THEN "health"
    ELSE IF len(p.body.PlayerName) < 1 \/ len(p.body.PlayerName) > MaxNameLen THEN "name"
    ELSE IF 2 * (t - p.body.Token.Start) < p.body.Elapsed THEN "elapsed"
    ELSE IF t - p.body.Token.Start >= 1 THEN "expired"
    ELSE "ok"

\* faulty variant of addScoreCheck: the signature is decoded but not compared
addScoreCheckNoEqual(p, key, t) ==
    IF ~p.decodes THEN "decode"
    ELSE IF DecodeString(p.body.Token.Hmac).err THEN "base64"
    ELSE IF p.body.RemainingHealth < 0 THEN "health"
    ELSE IF len(p.body.PlayerName) < 1 \/ len(p.body.PlayerName) > MaxNameLen THEN "name"
    ELSE IF 2 * (t - p.body.Token.Start) < p.body.Elapsed THEN "elapsed"
    ELSE "ok"

addScoreCheck(p, key, t) ==
    IF ~p.decodes THEN "decode"
    ELSE IF DecodeString(p.body.Token.Hmac).err THEN "base64"
    ELSE IF DecodeString(p.body.Token.Hmac).bytes # MacSum(key, p.body.Token.Start)
        THEN "signature"
    ELSE IF p.body.RemainingHealth < 0 THEN "health"
    ELSE IF len(p.body.PlayerName) < 1 \/ len(p.body.PlayerName) > MaxNameLen THEN "name"
    ELSE IF 2 * (t - p.body.Token.Start) < p.body.Elapsed THEN "elapsed"
    ELSE "ok"

\* faulty variant of appendScore: the token stays in the stored score
appendScoreKeepToken(s, sc) == Append(s, sc)

\* faulty variant of appendScore: the store is ranked at submission time
appendScoreSorted(s, sc) == SortStableFunc(Append(s, [sc EXCEPT !.Token = ZeroToken]))

\* s.scores after the append of an admitted score
appendScore(s, sc) == Append(s, [sc EXCEPT !.Token = ZeroToken])

\* append, line 123, on a full array: the runtime allocates an array of twice
\* the capacity, or of the length needed when that is more (capacities under
\* 256 elements; the size classes hold 1, 2, 4, 8, ... Scores of 56 bytes)
growCap(oldCap, newLen) == IF newLen > 2 * oldCap THEN newLen ELSE 2 * oldCap

\* append writes in place when the array has room
appendInPlace(s, c) == Len(s) < c

\* cap(s.scores) after the append
appendCap(s, c) == IF appendInPlace(s, c) THEN c ELSE growCap(c, Len(s) + 1)

----------------------------------------------------------------------------
Subs == {"sub1", "sub2"}

NoReset == [parses |-> FALSE, pw |-> "none"]

\* what the subscribers' slices show once the array of s.scores holds arr: a
\* slice of that array (a \in al) of length k shows its first k elements, a
\* slice of an array the store has left shows what it showed
Shown(arr, al, v) ==
    [s \in Subs |-> IF s \in al THEN SubSeq(arr, 1, Len(v[s])) ELSE v[s]]

Init ==
    /\ scores = <<>>
    /\ hmacKey \in ServerKeys
    /\ mutex = "free"
    /\ now = 1
    /\ issued = {}
    /\ areq = NoRequest
    /\ apc = "idle"
    /\ newScore = ZeroScore
    /\ astatus = 0
    /\ awhy = "none"
    /\ at = 0
    /\ rpc = "idle"
    /\ rstatus = 0
    /\ cleared = -1
    /\ spc = [s \in Subs |-> "new"]
    /\ ret = [s \in Subs |-> <<>>]
    /\ fresh = {}
    /\ rk = NoCall
    /\ capacity = 0
    /\ alias = {}
    /\ view = [s \in Subs |-> <<>>]
    /\ data = [s \in Subs |-> <<>>]
    /\ cancelled = {}
    /\ ticker = [s \in Subs |-> "none"]
    /\ rreq = NoReset

ClockTick ==
    /\ now < MaxTime
    /\ now' = now + 1
    /\ UNCHANGED <<scores, hmacKey, mutex, issued, areq, apc, newScore, astatus, awhy, at,
                   rpc, rstatus, cleared, spc, ret, fresh, rk,
                   capacity, alias, view, data, cancelled, ticker, rreq>>

\* getToken: lock, read the clock, answer 201 with the token, unlock
GetToken ==
    /\ mutex = "free"
    /\ issued' = issued \cup {MintToken(hmacKey, now)}
    /\ UNCHANGED <<scores, hmacKey, mutex, now, areq, apc, newScore, astatus, awhy, at,
                   rpc, rstatus, cleared, spc, ret, fresh, rk,
                   capacity, alias, view, data, cancelled, ticker, rreq>>

\* faulty variant of AddScoreValidate: a failure branch writes 400 and does not return
AddScoreValidateNoReturn(p, cap) ==
    /\ apc = "idle"
    /\ Len(scores) < cap
    /\ areq' = p
    /\ at' = now
    /\ awhy' = addScoreCheck(p, hmacKey, now)
    /\ apc' = "lock"
    /\ newScore' = p.body
    /\ astatus' = IF addScoreCheck(p, hmacKey, now) = "ok" THEN 0 ELSE 400
    /\ UNCHANGED <<scores, hmacKey, mutex, now, issued, rpc, rstatus, cleared,
                   spc, ret, fresh, rk,
                   capacity, alias, view, data, cancelled, ticker, rreq>>

\* addScore, lines 70-112: a request body p arrives; decode and validate it,
\* 400 on the first failure
AddScoreValidate(p, cap) ==
    /\ apc = "idle"
    /\ Len(scores) < cap
    /\ areq' = p
    /\ at' = now
    /\ LET why == addScoreCheck(p, hmacKey, now) IN
        /\ awhy' = why
        /\ IF why = "ok"
            THEN /\ apc' = "lock"
                 /\ newScore' = p.body
                 /\ astatus' = 0
            ELSE /\ apc' = "done"
                 /\ newScore' = ZeroScore
                 /\ astatus' = 400
    /\ UNCHANGED <<scores, hmacKey, mutex, now, issued, rpc, rstatus, cleared,
                   spc, ret, fresh, rk,
                   capacity, alias, view, data, cancelled, ticker, rreq>>

\* faulty variant of AddScoreLock: the handler does not wait for the mutex
AddScoreLockNoWait ==
    /\ apc = "lock"
    /\ mutex' = "add"
    /\ apc' = "cs"
    /\ UNCHANGED <<scores, hmacKey, now, issued, areq, newScore, astatus, awhy, at,
                   rpc, rstatus, cleared, spc, ret, fresh, rk,
                   capacity, alias, view, data, cancelled, ticker, rreq>>

\* addScore, line 117
AddScoreLock ==
    /\ apc = "lock"
    /\ mutex = "free"
    /\ mutex' = "add"
    /\ apc' = "cs"
    /\ UNCHANGED <<scores, hmacKey, now, issued, areq, newScore, astatus, awhy, at,
                   rpc, rstatus, cleared, spc, ret, fresh, rk,
                   capacity, alias, view, data, cancelled, ticker, rreq>>

\* addScore, lines 120-126: strip the token, append, 201, deferred unlock
AddScoreAppend ==
    /\ apc = "cs"
    /\ scores' = appendScore(scores, newScore)
    /\ astatus' = 201
    /\ mutex' = "free"
    /\ apc' = "done"
    /\ cleared' = -1
    /\ rk' = NoCall
    /\ capacity' = appendCap(scores, capacity)
    /\ alias' = IF appendInPlace(scores, capacity) THEN alias ELSE {}
    /\ view' = Shown(scores', alias', view)
    /\ UNCHANGED <<hmacKey, now, issued, areq, newScore, awhy, at, rpc, rstatus, spc, ret, fresh,
                   data, cancelled, ticker, rreq>>

\* the handler has returned; the next request is served
AddScoreReturn ==
    /\ apc = "done"
    /\ apc' = "idle"
    /\ areq' = NoRequest
    /\ newScore' = ZeroScore
    /\ astatus' = 0
    /\ awhy' = "none"
    /\ at' = 0
    /\ UNCHANGED <<scores, hmacKey, mutex, now, issued, rpc, rstatus, cleared, spc, ret, fresh, rk,
                   capacity, alias, view, data, cancelled, ticker, rreq>>

----------------------------------------------------------------------------
ResetInputs == {[parses |-> FALSE, pw |-> ""], [parses |-> TRUE, pw |-> adminPassword],
                [parses |-> TRUE, pw |-> "guess"], [parses |-> TRUE, pw |-> ""]}

\* faulty variant of resetCheck: the password is not compared
resetCheckAnyPassword(f) == IF ~f.parses THEN 400 ELSE 0

\* the status resetScore decides on before it takes the lock (0: goes on to clear)
resetCheck(f) ==
    IF ~f.parses THEN 400
    ELSE IF f.pw = adminPassword THEN 0
    ELSE 403

\* resetScore, lines 150-157 and 164-166
ResetRequest(f) ==
    /\ rpc = "idle"
    /\ rstatus' = resetCheck(f)
    /\ rpc' = IF resetCheck(f) = 0 THEN "lock" ELSE "done"
    /\ rreq' = f
    /\ UNCHANGED <<scores, hmacKey, mutex, now, issued, areq, apc, newScore, astatus, awhy, at,
                   cleared, spc, ret, fresh, rk,
                   capacity, alias, view, data, cancelled, ticker>>

\* resetScore, line 158
ResetLock ==
    /\ rpc = "lock"
    /\ mutex = "free"
    /\ mutex' = "reset"
    /\ rpc' = "cs"
    /\ UNCHANGED <<scores, hmacKey, now, issued, areq, apc, newScore, astatus, awhy, at,
                   rstatus, cleared, spc, ret, fresh, rk,
                   capacity, alias, view, data, cancelled, ticker, rreq>>

\* faulty variant of clearedScores: the assignment of line 162 is missing
keptScores(s) == s

\* s.scores after the reset
clearedScores(s) == <<>>

\* resetScore, lines 161-163 and the deferred unlock
ResetClear ==
    /\ rpc = "cs"
    /\ scores' = clearedScores(scores)
    /\ rstatus' = 200
    /\ mutex' = "free"
    /\ rpc' = "done"
    /\ cleared' = Len(scores)
    /\ fresh' = {}
    /\ rk' = NoCall
    /\ capacity' = 0
    /\ alias' = {}
    /\ UNCHANGED <<hmacKey, now, issued, areq, apc, newScore, astatus, awhy, at, spc, ret,
                   view, data, cancelled, ticker, rreq>>

ResetReturn ==
    /\ rpc = "done"
    /\ rpc' = "idle"
    /\ rstatus' = 0
    /\ rreq' = NoReset
    /\ UNCHANGED <<scores, hmacKey, mutex, now, issued, areq, apc, newScore, astatus, awhy, at,
                   cleared, spc, ret, fresh, rk,
                   capacity, alias, view, data, cancelled, ticker>>

----------------------------------------------------------------------------
(* stream *)

\* lines 171-186: headers, the ticker and its deferred Stop, the Flusher
\* assertion; on every return the server cancels the request's context
StreamOpen(s, flusherOk) ==
    /\ spc[s] = "new"
    /\ spc' = [spc EXCEPT ![s] = IF flusherOk THEN "select" ELSE "done"]
    /\ ticker' = [ticker EXCEPT ![s] = IF flusherOk THEN "running" ELSE "stopped"]
    /\ cancelled' = IF flusherOk THEN cancelled ELSE cancelled \cup {s}
    /\ UNCHANGED <<scores, hmacKey, mutex, now, issued, areq, apc, newScore, astatus, awhy, at,
                   rpc, rstatus, cleared, ret, fresh, rk,
                   capacity, alias, view, data, rreq>>

\* the client goes away, or the server closes the connection: ctx is done
CtxCancel(s) ==
    /\ spc[s] # "done"
    /\ s \notin cancelled
    /\ cancelled' = cancelled \cup {s}
    /\ UNCHANGED <<scores, hmacKey, mutex, now, issued, areq, apc, newScore, astatus, awhy, at,
                   rpc, rstatus, cleared, spc, ret, fresh, rk,
                   capacity, alias, view, data, ticker, rreq>>

\* faulty variant of StreamCancel: the loop ends and the ticker is left running
StreamCancelLeak(s) ==
    /\ spc[s] = "select"
    /\ s \in cancelled
    /\ spc' = [spc EXCEPT ![s] = "done"]
    /\ UNCHANGED <<scores, hmacKey, mutex, now, issued, areq, apc, newScore, astatus, awhy, at,
                   rpc, rstatus, cleared, ret, fresh, rk,
                   capacity, alias, view, data, cancelled, ticker, rreq>>

\* lines 188-190: select takes the case of ctx.Done()
StreamCancel(s) ==
    /\ spc[s] = "select"
    /\ s \in cancelled
    /\ spc' = [spc EXCEPT ![s] = "done"]
    /\ ticker' = [ticker EXCEPT ![s] = "stopped"]
    /\ UNCHANGED <<scores, hmacKey, mutex, now, issued, areq, apc, newScore, astatus, awhy, at,
                   rpc, rstatus, cleared, ret, fresh, rk,
                   capacity, alias, view, data, cancelled, rreq>>

\* lines 188 and 191-192: select takes the case of ticker.C, and the call of
\* truncateAndGetScores begins
StreamTick(s) ==
    /\ spc[s] = "select"
    /\ ticker[s] = "running"
    /\ spc' = [spc EXCEPT ![s] = "lock"]
    /\ UNCHANGED <<scores, hmacKey, mutex, now, issued, areq, apc, newScore, astatus, awhy, at,
                   rpc, rstatus, cleared, ret, fresh, rk,
                   capacity, alias, view, data, cancelled, ticker, rreq>>

\* line 56
StreamLock(s) ==
    /\ spc[s] = "lock"
    /\ mutex = "free"
    /\ mutex' = s
    /\ spc' = [spc EXCEPT ![s] = "cs"]
    /\ UNCHANGED <<scores, hmacKey, now, issued, areq, apc, newScore, astatus, awhy, at,
                   rpc, rstatus, cleared, ret, fresh, rk,
                   capacity, alias, view, data, cancelled, ticker, rreq>>

\* lines 59-66 and the deferred unlock: the array is sorted in place, s.scores
\* is resliced, and the caller is handed s.scores itself, a slice of that array
StreamRank(s) ==
    /\ spc[s] = "cs"
    /\ scores' = truncateAndGetScores(scores, NUM_SCORES)
    /\ ret' = [ret EXCEPT ![s] = truncateAndGetScores(scores, NUM_SCORES)]
    /\ alias' = alias \cup {s}
    /\ view' = Shown(scores', alias', [view EXCEPT ![s] = scores'])
    /\ mutex' = "free"
    /\ spc' = [spc EXCEPT ![s] = "write"]
    /\ fresh' = fresh \cup {s}
    /\ UNCHANGED <<hmacKey, now, issued, areq, apc, newScore, astatus, awhy, at,
                   rpc, rstatus, cleared, rk,
                   capacity, data, cancelled, ticker, rreq>>

\* line 193: json.Marshal reads the elements of the slice, first to last, with
\* the lock released; the first j it read before the array was last written
\* to, the others after that
Marshal(s, j) == SubSeq(ret[s], 1, j) \o SubSeq(view[s], j + 1, Len(view[s]))

\* lines 193-197: marshal the slice; an error ends the loop
StreamMarshal(s, ok, j) ==
    /\ spc[s] = "write"
    /\ j \in 0..Len(ret[s])
    /\ spc' = [spc EXCEPT ![s] = IF ok THEN "send" ELSE "done"]
    /\ data' = [data EXCEPT ![s] = IF ok THEN Marshal(s, j) ELSE <<>>]
    /\ ret' = [ret EXCEPT ![s] = <<>>]
    /\ view' = [view EXCEPT ![s] = <<>>]
    /\ alias' = alias \ {s}
    /\ fresh' = fresh \ {s}
    /\ ticker' = IF ok THEN ticker ELSE [ticker EXCEPT ![s] = "stopped"]
    /\ cancelled' = IF ok THEN cancelled ELSE cancelled \cup {s}
    /\ UNCHANGED <<scores, hmacKey, mutex, now, issued, areq, apc, newScore, astatus, awhy, at,
                   rpc, rstatus, cleared, rk, capacity, rreq>>

\* faulty variant of StreamWrite: a failed write ends every subscriber's loop
StreamWriteFailAll(s, ok) ==
    /\ spc[s] = "send"
    /\ spc' = IF ok THEN [spc EXCEPT ![s] = "select"] ELSE [o \in Subs |-> "done"]
    /\ data' = IF ok THEN [data EXCEPT ![s] = <<>>] ELSE data
    /\ ticker' = IF ok THEN ticker ELSE [o \in Subs |-> "stopped"]
    /\ cancelled' = IF ok THEN cancelled ELSE Subs
    /\ UNCHANGED <<scores, hmacKey, mutex, now, issued, areq, apc, newScore, astatus, awhy, at,
                   rpc, rstatus, cleared, ret, fresh, rk,
                   capacity, alias, view, rreq>>

\* lines 198-203: write the frame and flush; an error ends the loop, the frame
\* unsent
StreamWrite(s, ok) ==
    /\ spc[s] = "send"
    /\ spc' = [spc EXCEPT ![s] = IF ok THEN "select" ELSE "done"]
    /\ data' = IF ok THEN [data EXCEPT ![s] = <<>>] ELSE data
    /\ ticker' = IF ok THEN ticker ELSE [ticker EXCEPT ![s] = "stopped"]
    /\ cancelled' = IF ok THEN cancelled ELSE cancelled \cup {s}
    /\ UNCHANGED <<scores, hmacKey, mutex, now, issued, areq, apc, newScore, astatus, awhy, at,
                   rpc, rstatus, cleared, ret, fresh, rk,
                   capacity, alias, view, rreq>>

----------------------------------------------------------------------------
(* Spec: the server, one addScore and one resetScore handler at a time and *)
(* the subscribers of ServerSubs.                                          *)

ServerSubs == {"sub1"}

Next ==
    \/ ClockTick
    \/ GetToken
    \/ apc = "idle" /\ \E p \in SysPayloads : AddScoreValidate(p, MaxStore)
    \/ AddScoreLock
    \/ AddScoreAppend
    \/ AddScoreReturn
    \/ \E f \in ResetInputs : ResetRequest(f)
    \/ ResetLock
    \/ ResetClear
    \/ ResetReturn
    \/ \E s \in ServerSubs, flusherOk \in BOOLEAN : StreamOpen(s, flusherOk)
    \/ \E s \in ServerSubs : CtxCancel(s)
    \/ \E s \in ServerSubs : StreamCancel(s)
    \/ \E s \in ServerSubs : StreamTick(s)
    \/ \E s \in ServerSubs : StreamLock(s)
    \/ \E s \in ServerSubs : StreamRank(s)
    \/ \E s \in ServerSubs, ok \in BOOLEAN : \E j \in 0..Len(ret[s]) : StreamMarshal(s, ok, j)
    \/ \E s \in ServerSubs, ok \in BOOLEAN : StreamWrite(s, ok)

Spec == Init /\ [][Next]_vars

(* SpecRank: the score store alone.  Admitted scores are appended, the     *)
(* store is reset, and truncateAndGetScores is called with any n of        *)
(* 0..MaxN; rk records the call just made.                                 *)

RankNames == {<<"A">>, <<"U00E9">>}

RankScores ==
    {MkScore(nm, el, h, ZeroToken) :
        nm \in RankNames, el \in 0..MaxRankElapsed, h \in 0..MaxRankHealth}

RankAppend(sc) ==
    /\ Len(scores) < MaxRankStore
    /\ scores' = appendScore(scores, sc)
    /\ rk' = NoCall
    /\ cleared' = -1
    /\ fresh' = {}
    /\ capacity' = appendCap(scores, capacity)
    /\ alias' = IF appendInPlace(scores, capacity) THEN alias ELSE {}
    /\ view' = Shown(scores', alias', view)
    /\ UNCHANGED <<hmacKey, mutex, now, issued, areq, apc, newScore, astatus, awhy, at,
                   rpc, rstatus, spc, ret, data, cancelled, ticker, rreq>>

RankReset ==
    /\ scores' = clearedScores(scores)
    /\ rk' = NoCall
    /\ cleared' = Len(scores)
    /\ fresh' = {}
    /\ capacity' = 0
    /\ alias' = {}
    /\ UNCHANGED <<hmacKey, mutex, now, issued, areq, apc, newScore, astatus, awhy, at,
                   rpc, rstatus, spc, ret, view, data, cancelled, ticker, rreq>>

RankCall(n) ==
    /\ scores' = truncateAndGetScores(scores, n)
    /\ rk' = [n |-> n, pre |-> scores, ret |-> truncateAndGetScores(scores, n),
              again |-> rk # NoCall]
    /\ view' = Shown(scores', alias, view)
    /\ UNCHANGED <<hmacKey, mutex, now, issued, areq, apc, newScore, astatus, awhy, at,
                   rpc, rstatus, cleared, spc, ret, fresh,
                   capacity, alias, data, cancelled, ticker, rreq>>

NextRank ==
    \/ \E sc \in RankScores : RankAppend(sc)
    \/ RankReset
    \/ \E n \in 0..MaxN : RankCall(n)

SpecRank == Init /\ [][NextRank]_vars

(* SpecStream: the store under the subscribers of Subs and valid            *)
(* submissions, the clock standing still, on a store that grows until      *)
(* append writes in place.                                                 *)

StreamPayloads == {Body(<<"A">>, 0, h, tok) : h \in {0, 1}, tok \in issued}

NextStream ==
    \/ issued = {} /\ GetToken
    \/ apc = "idle" /\ \E p \in StreamPayloads : AddScoreValidate(p, MaxStreamStore)
    \/ AddScoreLock
    \/ AddScoreAppend
    \/ AddScoreReturn
    \/ \E s \in Subs : StreamOpen(s, TRUE)
    \/ \E s \in Subs : StreamTick(s)
    \/ \E s \in Subs : StreamLock(s)
    \/ \E s \in Subs : StreamRank(s)
    \/ \E s \in Subs : \E j \in 0..Len(ret[s]) : StreamMarshal(s, TRUE, j)
    \/ \E s \in Subs : StreamWrite(s, TRUE)

SpecStream == Init /\ [][NextStream]_vars

(* SpecLoop: the lock and the publishing loops: the subscribers of Subs     *)
(* with their cancellations and failures, valid submissions and authorized *)
(* resets.                                                                 *)

NextLoop ==
    \/ issued = {} /\ GetToken
    \/ apc = "idle" /\ \E p \in StreamPayloads : AddScoreValidate(p, MaxLoopStore)
    \/ AddScoreLock
    \/ AddScoreAppend
    \/ AddScoreReturn
    \/ ResetRequest([parses |-> TRUE, pw |-> adminPassword])
    \/ ResetLock
    \/ ResetClear
    \/ ResetReturn
    \/ \E s \in Subs, flusherOk \in BOOLEAN : StreamOpen(s, flusherOk)
    \/ \E s \in Subs : CtxCancel(s)
    \/ \E s \in Subs : StreamCancel(s)
    \/ \E s \in Subs : StreamTick(s)
    \/ \E s \in Subs : StreamLock(s)
    \/ \E s \in Subs : StreamRank(s)
    \/ \E s \in Subs, ok \in BOOLEAN : \E j \in 0..Len(ret[s]) : StreamMarshal(s, ok, j)
    \/ \E s \in Subs, ok \in BOOLEAN : StreamWrite(s, ok)

SpecLoop == Init /\ [][NextLoop]_vars

(* SpecLive: the publishing loops of the subscribers of Subs, with their   *)
(* cancellations and failures, contending for the mutex with valid         *)
(* submissions, under the scheduling the loops rely on: a task that        *)
(* can take a step takes one, select takes the case of ctx.Done() if it is *)
(* ready again and again (the choice among ready cases is uniformly        *)
(* random), and a task waiting in Lock gets the mutex if it is free again  *)
(* and again (a waiter of more than 1ms is handed the mutex).              *)

NextLive ==
    \/ issued = {} /\ GetToken
    \/ apc = "idle" /\ \E p \in StreamPayloads : AddScoreValidate(p, MaxLiveStore)
    \/ AddScoreLock
    \/ AddScoreAppend
    \/ AddScoreReturn
    \/ \E s \in Subs, flusherOk \in BOOLEAN : StreamOpen(s, flusherOk)
    \/ \E s \in Subs : CtxCancel(s)
    \/ \E s \in Subs : StreamCancel(s)
    \/ \E s \in Subs : StreamTick(s)
    \/ \E s \in Subs : StreamLock(s)
    \/ \E s \in Subs : StreamRank(s)
    \/ \E s \in Subs, ok \in BOOLEAN : \E j \in 0..Len(ret[s]) : StreamMarshal(s, ok, j)
    \/ \E s \in Subs, ok \in BOOLEAN : StreamWrite(s, ok)

\* the steps of subscriber s that wait for nothing
StreamStep(s) ==
    \/ \E flusherOk \in BOOLEAN : StreamOpen(s, flusherOk)
    \/ StreamRank(s)
    \/ \E ok \in BOOLEAN : \E j \in 0..Len(ret[s]) : StreamMarshal(s, ok, j)
    \/ \E ok \in BOOLEAN : StreamWrite(s, ok)

SpecLive ==
    /\ Init /\ [][NextLive]_vars
    /\ WF_vars(AddScoreAppend)
    /\ \A s \in Subs :
        /\ WF_vars(StreamStep(s))
        /\ SF_vars(StreamCancel(s))
        /\ SF_vars(StreamLock(s))

(* SpecSubmit: getToken, addScore and the ranked read alone, over every    *)
(* request body made of NameInputs, ElapsedInputs, HealthInputs and        *)
(* TokenInputs.                                                            *)

NextSubmit ==
    \/ ClockTick
    \/ GetToken
    \/ AddScoreValidate(Garbage, MaxSubmitStore)
    \/ apc = "idle" /\ \E tok \in TokenInputs :
            \E nm \in NameInputs, el \in ElapsedInputs, h \in HealthInputs :
                AddScoreValidate(Body(nm, el, h, tok), MaxSubmitStore)
    \/ AddScoreLock
    \/ AddScoreAppend
    \/ AddScoreReturn
    \/ RankCall(NUM_SCORES)

SpecSubmit == Init /\ [][NextSubmit]_vars

(* SpecAdmit: what gets into the store: addScore over every name, health   *)
(* and token of the input sets, with elapsed times on either side of the   *)
(* clock's limit, the clock standing still, and ranked reads and resets of *)
(* the store in between.                                                   *)

NextAdmit ==
    \/ GetToken
    \/ AddScoreValidate(Garbage, MaxAdmitStore)
    \/ apc = "idle" /\ \E tok \in TokenInputs :
            \E nm \in NameInputs, el \in {0, 1}, h \in HealthInputs :
                AddScoreValidate(Body(nm, el, h, tok), MaxAdmitStore)
    \/ AddScoreLock
    \/ AddScoreAppend
    \/ AddScoreReturn
    \/ RankCall(NUM_SCORES)
    \/ apc # "cs" /\ RankReset

SpecAdmit == Init /\ [][NextAdmit]_vars

----------------------------------------------------------------------------
(* Properties of truncateAndGetScores, under SpecRank *)

\* a ranks strictly better than b: more health, or the same health in less time
Better(a, b) ==
    \/ a.RemainingHealth > b.RemainingHealth
    \/ a.RemainingHealth = b.RemainingHealth /\ a.Elapsed < b.Elapsed

Occurrences(seq, x) == Cardinality({i \in DOMAIN seq : seq[i] = x})

Min(a, b) == IF a < b THEN a ELSE b

\* C1: the sequence truncateAndGetScores returns is sorted descending by
\* remaining_health, ties ascending by elapsed: no score ranks strictly
\* better than one at an earlier index.
C1_ReturnedBestFirst ==
    rk # NoCall =>
        \A i, j \in DOMAIN rk.ret : i < j => ~Better(rk.ret[j], rk.ret[i])

\* C2: truncateAndGetScores keeps the top n: no score it discarded ranks
\* strictly better than a score it kept.
C2_KeepsTheBest ==
    rk # NoCall =>
        \A d \in DOMAIN rk.pre, k \in DOMAIN rk.ret :
            Occurrences(rk.pre, rk.pre[d]) > Occurrences(rk.ret, rk.pre[d])
                => ~Better(rk.pre[d], rk.ret[k])

\* C8: right after truncateAndGetScores(n) returns, the sequence returned and
\* the stored sequence both have length min(n, length before the call).
C8_LengthIsMin ==
    rk # NoCall =>
        /\ Len(rk.ret) = Min(rk.n, Len(rk.pre))
        /\ Len(scores) = Min(rk.n, Len(rk.pre))
        /\ scores = rk.ret

\* C8 witness: a call that cut a longer store down to n > 0 scores
C8_Witness == rk # NoCall /\ rk.n > 0 /\ Len(rk.pre) > rk.n /\ Len(scores) = rk.n

\* C9: a call that directly follows another call (no append or reset in
\* between) and finds the store no longer than its n returns what the call
\* before returned and leaves the store as it was.
C9_Idempotent ==
    [][(rk # NoCall /\ rk' # NoCall /\ Len(scores) <= rk'.n)
            => (rk'.ret = rk.ret /\ scores' = scores)]_vars

\* C9 witness: a repeated call on a store of two scores that tie
C9_Witness ==
    /\ rk # NoCall /\ rk.again
    /\ Len(scores) = 2 /\ rk.n >= 2
    /\ scores[1] # scores[2] /\ scoreCmp(scores[1], scores[2]) = 0

SameKey(a, b) == a.RemainingHealth = b.RemainingHealth /\ a.Elapsed = b.Elapsed

\* the scores of seq with the health and elapsed of x, in the order of seq
Ties(seq, x) == SelectSeq(seq, LAMBDA y : SameKey(y, x))

IsPrefix(p, q) == Len(p) <= Len(q) /\ SubSeq(q, 1, Len(p)) = p

\* C18: ranking is stable: in what a call of truncateAndGetScores returns and
\* stores, the scores with one and the same (remaining_health, elapsed) stand
\* in the order they stood in the store before the call (truncation drops the
\* last of them first), and an append in between puts the new score behind
\* all stored ones; so ties keep their insertion order over any run of calls
\* and appends.
C18_Stable ==
    /\ [](rk # NoCall =>
            \A i \in DOMAIN rk.pre : IsPrefix(Ties(rk.ret, rk.pre[i]), Ties(rk.pre, rk.pre[i])))
    /\ [][/\ (rk' # NoCall) => (rk'.pre = scores /\ scores' = rk'.ret)
          /\ (rk' = NoCall /\ scores' # <<>>) => SubSeq(scores', 1, Len(scores)) = scores]_vars

\* C18 witness: a call moved the later of two ties, which differ in name
\* only, forward across a score appended between them, and kept both
C18_Witness ==
    /\ rk # NoCall
    /\ Len(rk.pre) = 3
    /\ SameKey(rk.pre[1], rk.pre[3]) /\ rk.pre[1].PlayerName # rk.pre[3].PlayerName
    /\ ~SameKey(rk.pre[1], rk.pre[2])
    /\ rk.ret = <<rk.pre[1], rk.pre[3]>>

----------------------------------------------------------------------------
(* Properties of addScore and getToken, under SpecSubmit.  While apc is    *)
(* not "idle", areq is the body the handler was given and at the clock     *)
(* when it validated it.                                                   *)

\* the elapsed time the body claims is more than the clock t allows its token
Exceeds(p, t) == p.decodes /\ p.body.Elapsed > 2 * (t - p.body.Token.Start)

\* the body carries the start and the signature bytes of a token getToken issued
SignedByServer(p) ==
    /\ p.decodes
    /\ ~DecodeString(p.body.Token.Hmac).err
    /\ \E t \in issued :
        /\ t.Start = p.body.Token.Start
        /\ DecodeString(t.Hmac).bytes = DecodeString(p.body.Token.Hmac).bytes

Stripped(sc) == MkScore(sc.PlayerName, sc.Elapsed, sc.RemainingHealth, ZeroToken)

\* C3: a submission whose elapsed exceeds now - token.start, now read when it
\* is validated, is answered 400, the handler ends there (it never gets to the
\* append) and its validation leaves the store alone.
C3_StaleElapsedRejected ==
    [][(apc' # "idle" /\ Exceeds(areq', at'))
            => /\ apc' = "done"
               /\ astatus' = 400
               /\ (apc = "idle" => scores' = scores)]_vars

\* C3 witness: a body under an issued token, rejected on the elapsed check
C3_Witness ==
    /\ apc = "done" /\ astatus = 400 /\ awhy = "elapsed"
    /\ areq.body.Token \in issued
    /\ Exceeds(areq, at)

\* C4: a submission whose token does not carry the start and signature of a
\* token getToken issued under the key is answered 400 at the decode, base64
\* or signature step and leaves the store alone; whatever gets past the
\* signature step has signature bytes MAC(key, start).
C4_ForgedTokenRejected ==
    [][/\ (apc' # "idle" /\ ~SignedByServer(areq'))
            => /\ apc' = "done"
               /\ astatus' = 400
               /\ awhy' \in {"decode", "base64", "signature"}
               /\ (apc = "idle" => scores' = scores)
       /\ (apc' # "idle" /\ awhy' \notin {"decode", "base64", "signature"})
            => DecodeString(areq'.body.Token.Hmac).bytes
                    = MacSum(hmacKey, areq'.body.Token.Start)]_vars

\* C4 witness: the signature of an issued token under another start, rejected
C4_Witness ==
    /\ apc = "done" /\ astatus = 400 /\ awhy = "signature"
    /\ \E t \in issued :
        t.Hmac = areq.body.Token.Hmac /\ t.Start # areq.body.Token.Start

\* the body carries a token exactly as getToken issued it and is valid otherwise
RoundTrip(p, t) ==
    /\ p.decodes
    /\ p.body.Token \in issued
    /\ p.body.RemainingHealth >= 0
    /\ len(p.body.PlayerName) \in 1..MaxNameLen
    /\ p.body.Elapsed <= 2 * (t - p.body.Token.Start)

\* C5: a token as getToken issued it, sent back with an otherwise valid body,
\* passes validation; the score is appended with status 201, and when the
\* store was empty before, the next ranked read returns it as the sole entry.
C5_RoundTrip ==
    [][(apc' # "idle" /\ RoundTrip(areq', at'))
            => /\ awhy' = "ok"
               /\ apc' \in {"lock", "cs", "done"}
               /\ (apc' = "done" => astatus' = 201)
               /\ (apc = "cs" /\ apc' = "done"
                        => scores' = Append(scores, Stripped(areq.body)))
               /\ (apc' = "done" /\ rk' # NoCall /\ Len(rk'.pre) = 1
                        => rk'.ret = <<Stripped(areq'.body)>>)]_vars

\* C5 witness: an issued token came back, the score was appended to the empty
\* store and the ranked read that followed returned it alone
C5_Witness ==
    /\ apc = "done" /\ astatus = 201
    /\ areq.body.Token \in issued
    /\ rk # NoCall /\ rk.ret = <<Stripped(areq.body)>>

\* the body is valid but for its name
ValidButName(p, t) ==
    /\ p.decodes
    /\ p.body.Token \in issued
    /\ p.body.RemainingHealth >= 0
    /\ p.body.Elapsed <= 2 * (t - p.body.Token.Start)

\* C7: with an otherwise valid body, the submission is accepted exactly when
\* the name has 1, 2 or 3 characters.
C7_CharacterCountDecides ==
    (apc # "idle" /\ ValidButName(areq, at))
        => (awhy = "ok" <=> RuneCount(areq.body.PlayerName) \in 1..3)

----------------------------------------------------------------------------
(* Properties of the stored scores, under SpecAdmit *)

\* C19: in every reachable state every stored score has remaining_health >= 0,
\* a name of 1 to 3 bytes (hence of 1 to 3 characters) and the empty token,
\* whatever bodies are submitted and however submissions, ranked reads and
\* resets follow each other.
C19_StoredScoresValid ==
    \A i \in DOMAIN scores :
        /\ scores[i].RemainingHealth >= 0
        /\ len(scores[i].PlayerName) \in 1..MaxNameLen
        /\ RuneCount(scores[i].PlayerName) \in 1..MaxNameLen
        /\ scores[i].Token = ZeroToken

\* C19 witness: a score submitted under an issued token is stored
C19_Witness ==
    /\ apc = "done" /\ astatus = 201
    /\ areq.body.Token \in issued /\ areq.body.Token # ZeroToken
    /\ scores = <<Stripped(areq.body)>>
    /\ scores[1].PlayerName = <<"U00E9">>

----------------------------------------------------------------------------
(* Properties under Spec *)

\* C6: a rejected submission (any of the failure branches) leaves the store as
\* it was: the validation that answers 400 changes nothing in the store, the
\* handler ends there, and its return changes nothing either.
C6_RejectionLeavesStore ==
    [][/\ (apc = "idle" /\ apc' # "idle" /\ awhy' # "ok")
            => (astatus' = 400 /\ apc' = "done" /\ scores' = scores)
       /\ (astatus = 400) => (apc = "done" /\ apc' \in {"done", "idle"})
       /\ (astatus = 400 /\ apc' = "idle") => scores' = scores]_vars

\* C6 witness: a rejection while the store holds a score
C6_Witness == apc = "done" /\ astatus = 400 /\ awhy = "elapsed" /\ scores # <<>>

\* C20: tokens do not expire and are not single-use: a body that passes
\* validation at clock t passes it at every later clock under the same key;
\* the decision on a body is a function of the body, the key and the clock
\* alone (no record of issued or used tokens enters it); and each admission
\* appends one more copy of the score.
C20_NoExpiryNoSingleUse ==
    [][/\ (apc' # "idle" /\ awhy' = "ok")
            => \A t2 \in at'..MaxTime : addScoreCheck(areq', hmacKey, t2) = "ok"
       /\ (apc = "idle" /\ apc' # "idle")
            => (at' = now /\ awhy' = addScoreCheck(areq', hmacKey, now))
       /\ (apc = "cs" /\ apc' = "done")
            => (astatus' = 201 /\ scores' = scores \o <<Stripped(areq.body)>>)]_vars

\* C20 witness: a body under a token of an earlier second is admitted while
\* the store already holds its score, which is then stored twice
C20_Witness ==
    /\ apc = "done" /\ astatus = 201
    /\ areq.body.Token \in issued /\ areq.body.Token.Start < at
    /\ scores = <<Stripped(areq.body), Stripped(areq.body)>>

\* C11: a reset request whose form parses and whose pw is not the admin
\* password is answered 403 and never gets to the lock, so it leaves the store
\* as it was; the reset handler clears the store, with status 200, only while
\* serving a request whose pw is the admin password, and no other step of it
\* changes the store.
C11_WrongPasswordForbidden ==
    [][/\ (rpc = "idle" /\ rpc' # "idle" /\ rreq'.parses /\ rreq'.pw # adminPassword)
            => (rstatus' = 403 /\ rpc' = "done" /\ scores' = scores)
       /\ (rstatus = 403) => (rpc = "done" /\ rpc' \in {"done", "idle"})
       /\ (rstatus = 403 /\ rpc' = "idle") => scores' = scores
       /\ (rpc = "cs" /\ rpc' = "done")
            => (rreq.parses /\ rreq.pw = adminPassword /\ rstatus' = 200 /\ scores' = <<>>)
       /\ (rpc' # rpc /\ ~(rpc = "cs" /\ rpc' = "done")) => scores' = scores]_vars

\* C11 witness: a wrong password answered 403 while the store holds a score
C11_Witness ==
    /\ rpc = "done" /\ rstatus = 403
    /\ rreq.parses /\ rreq.pw = "guess"
    /\ scores # <<>>

----------------------------------------------------------------------------
(* Properties of the lock and of the publishing loops, under SpecLoop (C10, *)
(* C12) and SpecLive (C14, C15)                                            *)

\* the tasks between Lock and Unlock of one of the three store mutations
InCS ==
    {s \in Subs : spc[s] = "cs"}
        \cup (IF apc = "cs" THEN {"add"} ELSE {})
        \cup (IF rpc = "cs" THEN {"reset"} ELSE {})

\* C12: the append of addScore, the sort-and-truncate of truncateAndGetScores
\* and the replacement of resetScore exclude each other: at most one task is in
\* its critical section, it is the holder of the mutex, and while a task is in
\* its critical section the store changes only by the step with which that
\* task leaves it (so a sort-and-truncate sees no append or reset between its
\* Lock and its Unlock).
C12_MutualExclusion ==
    /\ [](/\ Cardinality(InCS) <= 1
          /\ (InCS = {}) <=> (mutex = "free")
          /\ (InCS # {}) => (InCS = {mutex}))
    /\ [][/\ (scores' # scores) => (InCS = {mutex} /\ mutex' = "free" /\ InCS' = {})
          /\ \A s \in Subs : (spc[s] = "cs" /\ spc'[s] = "write")
                => scores' = truncateAndGetScores(scores, NUM_SCORES)]_vars

\* C12 witness: a subscriber is sorting while the other subscriber, a
\* submission and a reset wait for the mutex
C12_Witness ==
    /\ spc["sub1"] = "cs" /\ spc["sub2"] = "lock"
    /\ apc = "lock" /\ rpc = "lock"

\* C10: once a reset has cleared the store and no score was appended since,
\* the store is empty and every call of truncateAndGetScores made since
\* returned the empty sequence.
C10_ResetThenRankEmpty ==
    cleared >= 0 =>
        /\ scores = <<>>
        /\ \A s \in fresh : ret[s] = <<>>

\* C10 witness: a reset discarded scores and a subscriber's call followed it
C10_Witness == cleared >= 1 /\ \E s \in fresh : spc[s] = "write" /\ ret[s] = <<>>

\* C14: once a subscriber's context is cancelled its loop eventually ends;
\* when stream has returned, on whichever path, the ticker is stopped and the
\* subscriber holds neither the mutex nor a slice, and it stays returned: it
\* makes no further call of truncateAndGetScores.
C14_CancelledTerminates ==
    /\ \A s \in Subs : (s \in cancelled) ~> (spc[s] = "done")
    /\ [](\A s \in Subs : spc[s] = "done"
                => (ticker[s] = "stopped" /\ mutex # s /\ s \notin alias))
    /\ [][\A s \in Subs : spc[s] = "done"
                => (spc'[s] = "done" /\ ticker'[s] = "stopped" /\ ret'[s] = ret[s])]_vars

\* C14 witness: a subscriber cancelled in the middle of a round has returned
\* by the ctx.Done() case while the other subscriber is sorting
C14_Witness ==
    /\ spc["sub1"] = "done" /\ ticker["sub1"] = "stopped" /\ "sub1" \in cancelled
    /\ spc["sub2"] = "cs" /\ "sub2" \in cancelled
    /\ scores # <<>>

\* C15: a marshal or write failure of one subscriber ends that loop only: the
\* failing step changes neither the store nor the mutex nor anything of
\* another subscriber, a returned subscriber never holds the mutex, and every
\* other subscriber that has begun a round still gets the lock and comes to
\* its own frame (or its own failure).
C15_FailureIsLocal ==
    /\ [][\A s \in Subs : (spc[s] \in {"write", "send"} /\ spc'[s] = "done")
            => /\ scores' = scores /\ capacity' = capacity
               /\ mutex' = mutex /\ mutex # s
               /\ \A o \in Subs \ {s} :
                    /\ spc'[o] = spc[o] /\ ticker'[o] = ticker[o]
                    /\ ret'[o] = ret[o] /\ view'[o] = view[o] /\ data'[o] = data[o]
                    /\ (o \in cancelled') <=> (o \in cancelled)]_vars
    /\ [](\A s \in Subs : spc[s] = "done" => mutex # s)
    /\ \A o \in Subs : (spc[o] = "lock") ~> (spc[o] \in {"send", "done"})

\* C15 witness: a subscriber's write of a frame failed and its loop has ended;
\* the other subscriber has a frame ready to send and the store is as it was
C15_Witness ==
    /\ spc["sub1"] = "done" /\ data["sub1"] # <<>>
    /\ spc["sub2"] = "send" /\ data["sub2"] = data["sub1"]
    /\ scores = data["sub1"] /\ mutex = "free"

----------------------------------------------------------------------------
(* Properties of the slice truncateAndGetScores returns, under SpecStream  *)

\* C13: every access to the score collection happens under the lock, and
\* nothing outside the store keeps a reference into it once the lock is
\* released: a subscriber whose slice is a slice of the store's array, and
\* which is about to read its elements, holds the mutex.
C13_AccessUnderLock ==
    \A s \in Subs :
        (spc[s] = "write" /\ s \in alias /\ view[s] # <<>>) => mutex = s

\* C16: every frame a subscriber emits is the sequence its own call of
\* truncateAndGetScores(20) returned when it released the lock, whatever other
\* subscribers' calls, admitted submissions and resets run between that call
\* and the serialization of the frame.
C16_FrameIsSnapshot ==
    [][\A s \in Subs : (spc[s] = "write" /\ spc'[s] = "send") => data'[s] = ret[s]]_vars

\* C17: an admitted submission does one append and nothing else to the store:
\* the step that answers 201 leaves the store as it was with the submitted
\* score (its token emptied) added at the end, unsorted and untruncated, and
\* no other step of the handler changes the store.
C17_ExactlyOneAppend ==
    [][/\ (apc = "cs" /\ apc' = "done")
            => (scores' = scores \o <<Stripped(areq.body)>> /\ astatus' = 201)
       /\ (apc' # apc /\ ~(apc = "cs" /\ apc' = "done")) => scores' = scores]_vars

\* C17 witness: the score just admitted stands last, behind a score a ranking
\* would put after it
C17_Witness ==
    /\ apc = "done" /\ astatus = 201
    /\ Len(scores) >= 3
    /\ scores[Len(scores)] = Stripped(areq.body)
    /\ scoreCmp(scores[Len(scores)], scores[Len(scores) - 1]) < 0

====
